---- MODULE Spec2Model ----
(***************************************************************************)
(* Real-time presence and room coordination of the chat backend            *)
(* (src/src/services/socketService.js), the Group document methods         *)
(* (src/unnamed/part_000) and the REST group endpoints                     *)
(* (src/src/controllers/userController.js).                                *)
(*                                                                         *)
(* Every handler is an async function: it runs without interruption up to  *)
(* an await, and other handlers run while it is suspended.  One action of  *)
(* the model is one such uninterrupted segment, or the moment at which a   *)
(* store call issued by a segment takes effect in the store.  The result   *)
(* of the first read of a handler (Group.findById) is taken in the same    *)
(* step as the reception of the event: nothing of the handler is visible   *)
(* between the two.                                                        *)
(***************************************************************************)
EXTENDS Integers, Sequences, FiniteSets, Bags, TLC

\* ------------------------------------------------------------------ bounds
MaxConns == 2        \* connection handles 1..MaxConns, each used once
MaxTasks == 2        \* handlers suspended on a store call at the same time
MaxMessages == 1     \* message events accepted (records in the message store)
MaxVersion == 3      \* membership mutations accepted per group record
MaxBurst == 2        \* direct messages accepted where their order is examined
MaxMembers == 4      \* length of the member lists the document methods start from

UserIds == {"u1", "u2"}     \* identities with a user record
Creators == {"u1"}          \* the identities that create groups
GroupIds == {"g1"}          \* group ids the store hands out
Contents == {"", "hi"}      \* message content: missing or present
RecipientIds == UserIds \cup {"u0"}   \* recipientId of an event: "u0" has no user record

NoUser == "none"
NoGroup == "none"
NoConn == 0

Conns == 1..MaxConns

VARIABLES
    userSockets,   \* Map userId -> socket.id (NoConn: no entry)
    sockets,       \* per connection: state, bound identity, rooms, joinUserGroups progress
    groups,        \* Group collection: per id the record {creator, members, __v}
    messages,      \* Message collection: sequence of saved records
    tasks,         \* bag of the handlers suspended at an await
    storeFails,    \* whether store calls may fail in this run (never changes)
    deleted,       \* per group: number of group_deleted emissions so far
    out            \* emit calls made by the last step, in order

vars == <<userSockets, sockets, groups, messages, tasks, storeFails, deleted, out>>

\* ------------------------------------------------------------ Group model
\* a membership test that looks at the list and not at the identity: it
\* holds of everybody as soon as the group has a member
isMemberOfAny(members, userId) == Len(members) > 0

\* an addMember that pushes without looking at the list
addMemberAlways(members, userId) == Append(members, userId)

\* groupSchema.methods.isMember: this.members.some(member => member.equals(userId))
isMember(members, userId) == \E i \in 1..Len(members) : members[i] = userId

\* groupSchema.methods.addMember, the change of the document before save()
addMember(members, userId) ==
    IF ~isMember(members, userId) THEN Append(members, userId) ELSE members

\* groupSchema.methods.removeMember, the change of the document before save()
removeMember(members, userId) == SelectSeq(members, LAMBDA m : m # userId)

\* the identities in the persisted member list of g
MemberSet(g) == {groups[g].members[i] : i \in 1..Len(groups[g].members)}

\* Group.findById(groupId): the record, or null
FoundGroup(g) == g \in GroupIds /\ groups[g].state = "exists"

\* Group.find({ members: userId })
GroupsOf(userId) == {g \in GroupIds : FoundGroup(g) /\ isMember(groups[g].members, userId)}

\* ------------------------------------------------------- socket.io model
UserRoom(u) == <<"user", u>>
GroupRoom(g) == <<"group", g>>

IsOpen(c) == sockets[c].state = "open"
OpenConns == {c \in Conns : IsOpen(c)}
ConnsOf(u) == {c \in OpenConns : sockets[c].user = u}
InRoom(socks, room) == {c \in Conns : socks[c].state = "open" /\ room \in socks[c].rooms}

\* socket.join(room): a socket that has left the namespace receives nothing
SocketJoin(socks, c, room) ==
    IF socks[c].state = "open"
    THEN [socks EXCEPT ![c].rooms = @ \cup {room}]
    ELSE socks

\* socket.leave(room)
SocketLeave(socks, c, room) == [socks EXCEPT ![c].rooms = @ \ {room}]

\* one emit call: the handler that made it and its socket, the event and the
\* type or message in its payload, the connections that receive it, and the
\* group / user of its payload
Emit(h, ev, typ, from, dst, g, u) ==
    [h |-> h, ev |-> ev, typ |-> typ, from |-> from, dst |-> dst, g |-> g, u |-> u]

\* socket.emit(ev, ...)
SocketEmit(socks, h, c, ev, typ, g, u) ==
    Emit(h, ev, typ, c, IF socks[c].state = "open" THEN {c} ELSE {}, g, u)
\* io.emit(ev, ...)
IoEmit(socks, h, c, ev, typ, g, u) ==
    Emit(h, ev, typ, c, {d \in Conns : socks[d].state = "open"}, g, u)
\* io.to(room).emit(ev, ...)
IoToEmit(socks, h, c, room, ev, typ, g, u) ==
    Emit(h, ev, typ, c, InRoom(socks, room), g, u)

\* a broadcast to the room that does not leave the sender's socket out
SocketToEmitAll(socks, h, c, room, ev, typ, g, u) ==
    Emit(h, ev, typ, c, InRoom(socks, room), g, u)

\* socket.to(room).emit(ev, ...): the sockets in the room, except this one
SocketToEmit(socks, h, c, room, ev, typ, g, u) ==
    Emit(h, ev, typ, c, InRoom(socks, room) \ {c}, g, u)

\* an error that is sent to the personal room of the sender's identity, and
\* so to all of its connections
ErrorToUserRoom(h, c, typ) ==
    <<IoToEmit(sockets, h, c, UserRoom(sockets[c].user), "error", typ, NoGroup, NoUser)>>

\* socket.emit('error', { message })
ErrorTo(h, c, typ) == <<SocketEmit(sockets, h, c, "error", typ, NoGroup, NoUser)>>

\* a handler at an await; seq is the position of a direct message among
\* the message events received, seen the connections that were open when it
\* was received
Task(kind, pc, c, u, g, r, members, v) ==
    [kind |-> kind, pc |-> pc, conn |-> c, user |-> u, g |-> g, rcpt |-> r,
     members |-> members, v |-> v, saved |-> 0, seq |-> 0, seen |-> {}]

\* the handlers in flight; MaxTasks bounds how many the model lets overlap
Running == BagToSet(tasks)
CanStart == BagCardinality(tasks) < MaxTasks
Start(r) == tasks (+) SetToBag({r})
EndTask(t) == tasks (-) SetToBag({t})
Resume(t, r) == (tasks (-) SetToBag({t})) (+) SetToBag({r})

\* the outcomes of a store call: an answer, or an error thrown at the await
StoreOutcomes == IF storeFails THEN BOOLEAN ELSE {TRUE}

NoSocket == [state |-> "none", user |-> NoUser, rooms |-> {}, jug |-> "none", found |-> {}]
NoGroupRecord == [state |-> "absent", creator |-> NoUser, members |-> <<>>, v |-> 0]

\* the ids in the member lists the document methods are applied to
DocumentMembers == {"u1", "u2", "u3"}

\* the member lists of up to MaxMembers ids, repetitions included
MemberLists ==
    UNION {[1..n -> DocumentMembers] : n \in 0..MaxMembers}

\* ---------------------------------------------------------------- Init
InitState ==
    /\ userSockets = [u \in UserIds |-> NoConn]
    /\ sockets = [c \in Conns |-> NoSocket]
    /\ groups = [g \in GroupIds |-> NoGroupRecord]
    /\ messages = <<>>
    /\ tasks = EmptyBag
    /\ deleted = [g \in GroupIds |-> 0]
    /\ out = <<>>

Init == InitState /\ storeFails = FALSE

\* the same start, with a store whose calls may fail
InitFailures == InitState /\ storeFails = TRUE

\* one group document with any member list, nothing connected
InitDocument ==
    /\ userSockets = [u \in UserIds |-> NoConn]
    /\ sockets = [c \in Conns |-> NoSocket]
    /\ \E members \in MemberLists :
          groups = [g \in GroupIds |->
                      [state |-> "exists", creator |-> "u1", members |-> members, v |-> 0]]
    /\ messages = <<>>
    /\ tasks = EmptyBag
    /\ deleted = [g \in GroupIds |-> 0]
    /\ out = <<>>
    /\ storeFails = FALSE

\* ------------------------------------------------- connection lifecycle
\* the handle the next connection gets
NextConn == CHOOSE c \in Conns :
    sockets[c].state = "none" /\ \A d \in Conns : sockets[d].state = "none" => c <= d

\* io.use (token valid, user found) and the synchronous part of
\* io.on('connection'): registry entry, personal room, start of
\* joinUserGroups, user_status online
Connect(u) ==
    /\ \E c \in Conns : sockets[c].state = "none"
    /\ LET c == NextConn
           socks == [sockets EXCEPT ![c] =
                        [state |-> "open", user |-> u, rooms |-> {UserRoom(u)},
                         jug |-> "find", found |-> {}]]
       IN /\ userSockets' = [userSockets EXCEPT ![u] = c]
          /\ sockets' = socks
          /\ out' = <<IoEmit(socks, "connection", c, "user_status", "online", NoGroup, u)>>
    /\ UNCHANGED <<groups, messages, tasks, storeFails, deleted>>

\* joinUserGroups: Group.find({ members: userId }) is answered by the store;
\* an error is caught and logged, and no room is joined
JoinUserGroupsFind(c) ==
    /\ sockets[c].jug = "find"
    /\ \E ok \in StoreOutcomes :
        sockets' = [sockets EXCEPT
              ![c].jug = IF ok THEN "found" ELSE "done",
              ![c].found = IF ok THEN GroupsOf(sockets[c].user) ELSE {}]
    /\ out' = <<>>
    /\ UNCHANGED <<userSockets, groups, messages, tasks, storeFails, deleted>>

\* joinUserGroups: the loop socket.join(`group:${group._id}`)
JoinUserGroupsJoin(c) ==
    /\ sockets[c].jug = "found"
    /\ sockets' = [sockets EXCEPT
          ![c].jug = "done",
          ![c].found = {},
          ![c].rooms = @ \cup {GroupRoom(g) : g \in sockets[c].found}]
    /\ out' = <<>>
    /\ UNCHANGED <<userSockets, groups, messages, tasks, storeFails, deleted>>

\* socket.handshake.auth.token of a connection attempt: none, one that
\* jwt.verify rejects (forged or expired), and signed ones for the ids of
\* the two users and of an id that has no user record
Tokens == {"", "expired", "jwt-u1", "jwt-u2", "jwt-u0"}

\* jwt.verify(token, secret) returns the payload
Verifies(token) == token \in {"jwt-u1", "jwt-u2", "jwt-u0"}

\* decoded.id
DecodedId(token) ==
    CASE token = "jwt-u1" -> "u1"
      [] token = "jwt-u2" -> "u2"
      [] OTHER -> "u0"

\* a middleware that trusts every token that verifies, without the user
\* lookup
AuthenticatedByToken(token) == token # "" /\ Verifies(token)

\* io.use calls next() without an error: token present, verified, user found
Authenticated(token) ==
    token # "" /\ Verifies(token) /\ DecodedId(token) \in UserIds

\* a connection attempt: io.use, then io.on('connection') if next() was
\* called without an error; otherwise the attempt is refused with the
\* error and no handler is ever registered on its socket
Handshake(token) ==
    /\ \E c \in Conns : sockets[c].state = "none"
    /\ \E ok \in StoreOutcomes :
        IF ok /\ Authenticated(token)
        THEN Connect(DecodedId(token))
        ELSE /\ sockets' = [sockets EXCEPT ![NextConn].state = "rejected"]
             /\ out' = <<>>
             /\ UNCHANGED <<userSockets, groups, messages, tasks, storeFails, deleted>>

\* a disconnect handler that also takes the identity out of the member
\* lists of its groups
DisconnectLeavesGroups(c) ==
    /\ IsOpen(c)
    /\ LET u == sockets[c].user
           socks == [sockets EXCEPT ![c] =
                        [state |-> "closed", user |-> u, rooms |-> {},
                         jug |-> "done", found |-> {}]]
       IN /\ userSockets' = [userSockets EXCEPT ![u] = NoConn]
          /\ sockets' = socks
          /\ groups' = [g \in GroupIds |->
                           [groups[g] EXCEPT !.members = removeMember(@, u)]]
          /\ out' = <<IoEmit(socks, "disconnect", c, "user_status", "offline", NoGroup, u)>>
    /\ UNCHANGED <<messages, tasks, storeFails, deleted>>

\* the connection closes: socket.io takes the socket out of its rooms and of
\* the namespace, then socket.on('disconnect') runs.  What is left of
\* joinUserGroups only joins rooms of a socket that receives nothing any
\* more, so it is dropped here.
Disconnect(c) ==
    /\ IsOpen(c)
    /\ LET u == sockets[c].user
           socks == [sockets EXCEPT ![c] =
                        [state |-> "closed", user |-> u, rooms |-> {},
                         jug |-> "done", found |-> {}]]
       IN /\ userSockets' = [userSockets EXCEPT ![u] = NoConn]
          /\ sockets' = socks
          /\ out' = <<IoEmit(socks, "disconnect", c, "user_status", "offline", NoGroup, u)>>
    /\ UNCHANGED <<groups, messages, tasks, storeFails, deleted>>

\* ------------------------------------------------------ direct messages
\* messageSchema.pre('validate'): the hook passes an error to next when the
\* document has both a recipient and a group, or neither; validation, and
\* with it save(), then fails
preValidate(m) ==
    ~(\/ m.recipient # NoUser /\ m.group # NoGroup
      \/ m.recipient = NoUser /\ m.group = NoGroup)

\* message events accepted so far: saved, or waiting for their save
MessageEvents ==
    Len(messages)
    + BagCardinality([t \in {x \in Running : x.kind \in {"dm", "gm", "rest_dm", "rest_gm"}
                                             /\ x.pc = "save"}
                        |-> tasks[t]])

\* socket.on('direct_message'), up to await message.save(), while fewer
\* than max message events have been accepted
DirectMessageRecvWithin(c, recipientId, content, max) ==
    /\ IsOpen(c)
    /\ IF recipientId = NoUser \/ content = ""
       THEN /\ out' = ErrorTo("direct_message", c, "required")
            /\ UNCHANGED tasks
       ELSE /\ CanStart
            /\ MessageEvents < max
            /\ tasks' = Start([Task("dm", "save", c, sockets[c].user, NoGroup,
                                    recipientId, <<>>, 0)
                                  EXCEPT !.seq = MessageEvents + 1,
                                         !.seen = OpenConns])
            /\ out' = <<>>
    /\ UNCHANGED <<userSockets, sockets, groups, messages, storeFails, deleted>>

\* socket.on('direct_message'), up to await message.save()
DirectMessageRecv(c, recipientId, content) ==
    DirectMessageRecvWithin(c, recipientId, content, MaxMessages)

\* a save whose error is swallowed: the handler goes on to the fan-out
\* whether the record was stored or not
DirectMessageSaveSwallowed(t) ==
    /\ t.kind = "dm" /\ t.pc = "save"
    /\ \E ok \in StoreOutcomes :
        /\ messages' = IF ok
                        THEN Append(messages,
                               [sender |-> t.user, recipient |-> t.rcpt, group |-> NoGroup])
                        ELSE messages
        /\ tasks' = Resume(t, [t EXCEPT !.pc = "populate",
                                        !.saved = IF ok THEN Len(messages) + 1 ELSE 0])
    /\ out' = <<>>
    /\ UNCHANGED <<userSockets, sockets, groups, storeFails, deleted>>

\* a store that answers the saves one at a time, in the order in which the
\* events were received
DirectMessageSaveInTurn(t) ==
    /\ t.kind = "dm" /\ t.pc = "save"
    /\ \A e \in Running : e.kind = "dm" => e.seq >= t.seq
    /\ messages' = Append(messages,
                      [sender |-> t.user, recipient |-> t.rcpt, group |-> NoGroup])
    /\ tasks' = Resume(t, [t EXCEPT !.pc = "populate", !.saved = Len(messages) + 1])
    /\ out' = <<>>
    /\ UNCHANGED <<userSockets, sockets, groups, storeFails, deleted>>

\* a save that takes the sender of the record from the event's payload
\* instead of the identity bound to the socket
DirectMessageSaveSenderFromPayload(t) ==
    /\ t.kind = "dm" /\ t.pc = "save"
    /\ messages' = Append(messages,
                      [sender |-> t.rcpt, recipient |-> t.rcpt, group |-> NoGroup])
    /\ tasks' = Resume(t, [t EXCEPT !.pc = "populate", !.saved = Len(messages) + 1])
    /\ out' = <<>>
    /\ UNCHANGED <<userSockets, sockets, groups, storeFails, deleted>>

\* message.save() of a direct message is answered by the store; an error
\* is caught and reported to the sender
DirectMessageSave(t) ==
    /\ t.kind = "dm" /\ t.pc = "save"
    /\ \E ok \in StoreOutcomes :
        IF ok /\ preValidate([sender |-> t.user, recipient |-> t.rcpt, group |-> NoGroup])
        THEN /\ messages' = Append(messages,
                    [sender |-> t.user, recipient |-> t.rcpt, group |-> NoGroup])
             /\ tasks' = Resume(t, [t EXCEPT !.pc = "populate",
                                             !.saved = Len(messages) + 1])
             /\ out' = <<>>
        ELSE /\ messages' = messages
             /\ tasks' = EndTask(t)
             /\ out' = ErrorTo("direct_message", t.conn, "failed")
    /\ UNCHANGED <<userSockets, sockets, groups, storeFails, deleted>>

\* userSockets.has(recipientId)
userSocketsHas(userId) == userId \in UserIds /\ userSockets[userId] # NoConn

\* a fan-out that treats a recipient without registry entry as a failure
\* of the event
DirectMessageEmitsOrFails(t) ==
    IF userSocketsHas(t.rcpt)
    THEN <<IoToEmit(sockets, "direct_message", t.conn, UserRoom(t.rcpt),
                    "direct_message", "", NoGroup, t.user),
           SocketEmit(sockets, "direct_message", t.conn, "message_sent", "",
                      NoGroup, NoUser)>>
    ELSE ErrorTo("direct_message", t.conn, "failed")

\* socket.on('direct_message'), "Send to recipient if online" and "Send
\* confirmation to sender"
DirectMessageEmits(t) ==
    (IF userSocketsHas(t.rcpt)
     THEN <<IoToEmit(sockets, "direct_message", t.conn, UserRoom(t.rcpt),
                     "direct_message", "", NoGroup, t.user)>>
     ELSE <<>>)
    \o <<SocketEmit(sockets, "direct_message", t.conn, "message_sent", "",
                    NoGroup, NoUser)>>

\* socket.on('direct_message') after the populate calls: delivery to the
\* recipient's room if the registry has the recipient, then message_sent
DirectMessageFanout(t) ==
    /\ t.kind = "dm" /\ t.pc = "populate"
    /\ \E ok \in StoreOutcomes :
        IF ok
        THEN out' = DirectMessageEmits(t)
        ELSE out' = ErrorTo("direct_message", t.conn, "failed")
    /\ tasks' = EndTask(t)
    /\ UNCHANGED <<userSockets, sockets, groups, messages, storeFails, deleted>>

\* ------------------------------------------------------- group messages
\* socket.on('group_message'), up to await message.save(): validation,
\* Group.findById, membership check
GroupMessageRecv(c, groupId, content) ==
    /\ IsOpen(c)
    /\ LET u == sockets[c].user
           Reject(typ) == out' = ErrorTo("group_message", c, typ) /\ UNCHANGED tasks
       IN IF groupId = NoGroup \/ content = ""
          THEN Reject("required")
          ELSE \E ok \in StoreOutcomes :
               IF ~ok THEN Reject("failed")
               ELSE IF ~FoundGroup(groupId) THEN Reject("not_found")
               ELSE IF ~isMember(groups[groupId].members, u) THEN Reject("not_member")
               ELSE /\ CanStart
                    /\ MessageEvents < MaxMessages
                    /\ tasks' = Start(Task("gm", "save", c, u, groupId, NoUser, <<>>, 0))
                    /\ out' = <<>>
    /\ UNCHANGED <<userSockets, sockets, groups, messages, storeFails, deleted>>

\* a save that stores a group message with the sender as its recipient
\* too, and that no validation stops
GroupMessageSaveWithRecipient(t) ==
    /\ t.kind = "gm" /\ t.pc = "save"
    /\ messages' = Append(messages,
                      [sender |-> t.user, recipient |-> t.user, group |-> t.g])
    /\ tasks' = Resume(t, [t EXCEPT !.pc = "populate", !.saved = Len(messages) + 1])
    /\ out' = <<>>
    /\ UNCHANGED <<userSockets, sockets, groups, storeFails, deleted>>

\* message.save() of a group message is answered by the store
GroupMessageSave(t) ==
    /\ t.kind = "gm" /\ t.pc = "save"
    /\ \E ok \in StoreOutcomes :
        IF ok /\ preValidate([sender |-> t.user, recipient |-> NoUser, group |-> t.g])
        THEN /\ messages' = Append(messages,
                    [sender |-> t.user, recipient |-> NoUser, group |-> t.g])
             /\ tasks' = Resume(t, [t EXCEPT !.pc = "populate",
                                             !.saved = Len(messages) + 1])
             /\ out' = <<>>
        ELSE /\ messages' = messages
             /\ tasks' = EndTask(t)
             /\ out' = ErrorTo("group_message", t.conn, "failed")
    /\ UNCHANGED <<userSockets, sockets, groups, storeFails, deleted>>

\* socket.on('group_message') after populate: io.to(`group:${groupId}`)
\* .emit('group_message'), then message_sent
GroupMessageFanout(t) ==
    /\ t.kind = "gm" /\ t.pc = "populate"
    /\ \E ok \in StoreOutcomes :
        IF ok
        THEN out' = <<IoToEmit(sockets, "group_message", t.conn, GroupRoom(t.g),
                               "group_message", "", t.g, t.user),
                      SocketEmit(sockets, "group_message", t.conn, "message_sent", "",
                                 NoGroup, NoUser)>>
        ELSE out' = ErrorTo("group_message", t.conn, "failed")
    /\ tasks' = EndTask(t)
    /\ UNCHANGED <<userSockets, sockets, groups, messages, storeFails, deleted>>

\* ---------------------------------------------------- typing indicators
\* socket.on('typing'): to the recipient's personal room, if recipientId is
\* there; nothing otherwise
Typing(c, recipientId) ==
    /\ IsOpen(c)
    /\ out' = IF recipientId # NoUser
              THEN <<IoToEmit(sockets, "typing", c, UserRoom(recipientId),
                              "typing", "", NoGroup, sockets[c].user)>>
              ELSE <<>>
    /\ UNCHANGED <<userSockets, sockets, groups, messages, tasks, storeFails, deleted>>

\* socket.on('group_typing'): to the group's room except the sender's
\* socket, if groupId is there; nothing otherwise
GroupTyping(c, groupId) ==
    /\ IsOpen(c)
    /\ out' = IF groupId # NoGroup
              THEN <<SocketToEmit(sockets, "group_typing", c, GroupRoom(groupId),
                                  "group_typing", "", groupId, sockets[c].user)>>
              ELSE <<>>
    /\ UNCHANGED <<userSockets, sockets, groups, messages, tasks, storeFails, deleted>>

\* ------------------------------------------------- the store's writes
DeletedGroup == [state |-> "deleted", creator |-> NoUser, members |-> <<>>, v |-> 0]

\* group.save() after members.push(userId): mongoose sends the pushed
\* element ($push) and increments __v; it fails when the record is gone
SavePushOk(g) == groups[g].state = "exists"
SavePush(g, userId) ==
    [groups EXCEPT ![g].members = Append(@, userId), ![g].v = @ + 1]

\* a save of the whole array that does not look at __v
SaveSetUnversioned(g, v) == groups[g].state = "exists"

\* group.save() after this.members = this.members.filter(...): mongoose
\* sends the whole array ($set) under the condition that __v is still the
\* one it read, and increments __v; it fails (VersionError) otherwise
SaveSetOk(g, v) == groups[g].state = "exists" /\ groups[g].v = v
SaveSet(g, members) ==
    [groups EXCEPT ![g].members = members, ![g].v = @ + 1]

\* Group.findByIdAndDelete(groupId): null, and no error, when it is gone
FindByIdAndDelete(g) ==
    IF groups[g].state = "exists" THEN [groups EXCEPT ![g] = DeletedGroup] ELSE groups

\* a creator check that is off by one: the creator is held back only when
\* two other members remain
CreatorMayNotLeaveOfThree(g, userId) ==
    groups[g].creator = userId /\ Len(groups[g].members) > 2

\* "If user is the creator and not the only member, don't allow leaving"
CreatorMayNotLeave(g, userId) ==
    groups[g].creator = userId /\ Len(groups[g].members) > 1

\* ---------------------------------------------------------- join_group
\* socket.on('join_group'), up to await group.addMember(userId)
JoinGroupRecv(c, groupId) ==
    /\ IsOpen(c)
    /\ LET u == sockets[c].user
           Reject(typ) == out' = ErrorTo("join_group", c, typ) /\ UNCHANGED tasks
       IN IF groupId = NoGroup
          THEN Reject("required")
          ELSE \E ok \in StoreOutcomes :
               IF ~ok THEN Reject("failed")
               ELSE IF ~FoundGroup(groupId) THEN Reject("not_found")
               ELSE IF isMember(groups[groupId].members, u) THEN Reject("already_member")
               ELSE /\ CanStart
                    /\ groups[groupId].v < MaxVersion
                    /\ tasks' = Start(Task("join", "save", c, u, groupId, NoUser,
                                           addMember(groups[groupId].members, u),
                                           groups[groupId].v))
                    /\ out' = <<>>
    /\ UNCHANGED <<userSockets, sockets, groups, messages, storeFails, deleted>>

\* the save of addMember is answered by the store
JoinGroupSave(t) ==
    /\ t.kind = "join" /\ t.pc = "save"
    /\ \E ok \in StoreOutcomes :
        IF ok /\ SavePushOk(t.g)
        THEN /\ groups' = SavePush(t.g, t.user)
             /\ tasks' = Resume(t, [t EXCEPT !.pc = "saved"])
             /\ out' = <<>>
        ELSE /\ groups' = groups
             /\ tasks' = EndTask(t)
             /\ out' = ErrorTo("join_group", t.conn, "failed")
    /\ UNCHANGED <<userSockets, sockets, messages, storeFails, deleted>>

\* a join handler that notifies the room before it subscribes its socket
JoinGroupDoneEmitFirst(t) ==
    /\ t.kind = "join" /\ t.pc = "saved"
    /\ sockets' = SocketJoin(sockets, t.conn, GroupRoom(t.g))
    /\ out' = <<IoToEmit(sockets, "join_group", t.conn, GroupRoom(t.g),
                         "group_update", "member_joined", t.g, t.user),
                SocketEmit(sockets, "join_group", t.conn, "group_joined", "",
                           t.g, NoUser)>>
    /\ tasks' = EndTask(t)
    /\ UNCHANGED <<userSockets, groups, messages, storeFails, deleted>>

\* socket.on('join_group') after addMember: socket.join, member_joined to
\* the room, group_joined to the sender
JoinGroupDone(t) ==
    /\ t.kind = "join" /\ t.pc = "saved"
    /\ LET socks == SocketJoin(sockets, t.conn, GroupRoom(t.g))
       IN /\ sockets' = socks
          /\ out' = <<IoToEmit(socks, "join_group", t.conn, GroupRoom(t.g),
                               "group_update", "member_joined", t.g, t.user),
                      SocketEmit(socks, "join_group", t.conn, "group_joined", "",
                                 t.g, NoUser)>>
    /\ tasks' = EndTask(t)
    /\ UNCHANGED <<userSockets, groups, messages, storeFails, deleted>>

\* --------------------------------------------------------- leave_group
\* socket.on('leave_group'), up to await group.removeMember(userId)
LeaveGroupRecv(c, groupId) ==
    /\ IsOpen(c)
    /\ LET u == sockets[c].user
           Reject(typ) == out' = ErrorTo("leave_group", c, typ) /\ UNCHANGED tasks
       IN IF groupId = NoGroup
          THEN Reject("required")
          ELSE \E ok \in StoreOutcomes :
               IF ~ok THEN Reject("failed")
               ELSE IF ~FoundGroup(groupId) THEN Reject("not_found")
               ELSE IF ~isMember(groups[groupId].members, u) THEN Reject("not_member")
               ELSE IF CreatorMayNotLeave(groupId, u) THEN Reject("creator")
               ELSE /\ CanStart
                    /\ groups[groupId].v < MaxVersion
                    /\ tasks' = Start(Task("leave", "save", c, u, groupId, NoUser,
                                           removeMember(groups[groupId].members, u),
                                           groups[groupId].v))
                    /\ out' = <<>>
    /\ UNCHANGED <<userSockets, sockets, groups, messages, storeFails, deleted>>

\* the save of removeMember is answered by the store
LeaveGroupSave(t) ==
    /\ t.kind = "leave" /\ t.pc = "save"
    /\ \E ok \in StoreOutcomes :
        IF ok /\ SaveSetOk(t.g, t.v)
        THEN /\ groups' = SaveSet(t.g, t.members)
             /\ tasks' = Resume(t, [t EXCEPT !.pc = "saved"])
             /\ out' = <<>>
        ELSE /\ groups' = groups
             /\ tasks' = EndTask(t)
             /\ out' = ErrorTo("leave_group", t.conn, "failed")
    /\ UNCHANGED <<userSockets, sockets, messages, storeFails, deleted>>

\* a leave handler that acknowledges as soon as the member list is saved,
\* before it goes on to delete an emptied group
LeaveGroupLeftEarlyAck(t) ==
    /\ t.kind = "leave" /\ t.pc = "saved"
    /\ LET socks == SocketLeave(sockets, t.conn, GroupRoom(t.g))
       IN /\ sockets' = socks
          /\ tasks' = IF Len(t.members) = 0
                      THEN Resume(t, [t EXCEPT !.pc = "delete"])
                      ELSE EndTask(t)
          /\ out' = <<IoToEmit(socks, "leave_group", t.conn, GroupRoom(t.g),
                               "group_update", "member_left", t.g, t.user),
                      SocketEmit(socks, "leave_group", t.conn, "group_left", "",
                                 t.g, NoUser)>>
    /\ UNCHANGED <<userSockets, groups, messages, storeFails, deleted>>

\* socket.on('leave_group') after removeMember: socket.leave, then either
\* await Group.findByIdAndDelete (no member left in the document) or
\* member_left to the room and group_left to the sender
LeaveGroupLeft(t) ==
    /\ t.kind = "leave" /\ t.pc = "saved"
    /\ LET socks == SocketLeave(sockets, t.conn, GroupRoom(t.g))
       IN /\ sockets' = socks
          /\ IF Len(t.members) = 0
             THEN /\ tasks' = Resume(t, [t EXCEPT !.pc = "delete"])
                  /\ out' = <<>>
             ELSE /\ tasks' = EndTask(t)
                  /\ out' = <<IoToEmit(socks, "leave_group", t.conn, GroupRoom(t.g),
                                       "group_update", "member_left", t.g, t.user),
                              SocketEmit(socks, "leave_group", t.conn, "group_left", "",
                                         t.g, NoUser)>>
    /\ UNCHANGED <<userSockets, groups, messages, storeFails, deleted>>

\* Group.findByIdAndDelete of the leave handler is answered by the store
LeaveGroupDelete(t) ==
    /\ t.kind = "leave" /\ t.pc = "delete"
    /\ \E ok \in StoreOutcomes :
        IF ok
        THEN /\ groups' = FindByIdAndDelete(t.g)
             /\ tasks' = Resume(t, [t EXCEPT !.pc = "deleted"])
             /\ out' = <<>>
        ELSE /\ groups' = groups
             /\ tasks' = EndTask(t)
             /\ out' = ErrorTo("leave_group", t.conn, "failed")
    /\ UNCHANGED <<userSockets, sockets, messages, storeFails, deleted>>

\* socket.on('leave_group') after findByIdAndDelete: io.emit('group_deleted'),
\* then group_left to the sender
LeaveGroupDeleted(t) ==
    /\ t.kind = "leave" /\ t.pc = "deleted"
    /\ out' = <<IoEmit(sockets, "leave_group", t.conn, "group_deleted", "", t.g, NoUser),
                SocketEmit(sockets, "leave_group", t.conn, "group_left", "", t.g, NoUser)>>
    /\ deleted' = [deleted EXCEPT ![t.g] = @ + 1]
    /\ tasks' = EndTask(t)
    /\ UNCHANGED <<userSockets, sockets, groups, messages, storeFails>>

\* ------------------------------------------------------------- REST groups
\* the id the store gives the next group
NewGroupId == CHOOSE g \in GroupIds : groups[g].state = "absent"

\* exports.createGroup: the creator is the first member
createGroup(u) ==
    /\ \E g \in GroupIds : groups[g].state = "absent"
    /\ groups' = [groups EXCEPT ![NewGroupId] =
          [state |-> "exists", creator |-> u, members |-> <<u>>, v |-> 0]]
    /\ out' = <<>>
    /\ UNCHANGED <<userSockets, sockets, messages, tasks, storeFails, deleted>>

\* exports.joinGroup, up to await group.addMember(userId); 404 and 400
\* responses change nothing
joinGroup(u, groupId) ==
    /\ \E ok \in StoreOutcomes :
        IF ~ok \/ ~FoundGroup(groupId) THEN UNCHANGED tasks
        ELSE IF isMember(groups[groupId].members, u) THEN UNCHANGED tasks
        ELSE /\ CanStart
             /\ groups[groupId].v < MaxVersion
             /\ tasks' = Start(Task("rest_join", "save", NoConn, u, groupId, NoUser,
                                    addMember(groups[groupId].members, u),
                                    groups[groupId].v))
    /\ out' = <<>>
    /\ UNCHANGED <<userSockets, sockets, groups, messages, storeFails, deleted>>

\* exports.joinGroup: the save of addMember is answered, then the response
joinGroupSave(t) ==
    /\ t.kind = "rest_join" /\ t.pc = "save"
    /\ \E ok \in StoreOutcomes :
        groups' = IF ok /\ SavePushOk(t.g) THEN SavePush(t.g, t.user) ELSE groups
    /\ tasks' = EndTask(t)
    /\ out' = <<>>
    /\ UNCHANGED <<userSockets, sockets, messages, storeFails, deleted>>

\* exports.leaveGroup, up to await group.removeMember(userId)
leaveGroup(u, groupId) ==
    /\ \E ok \in StoreOutcomes :
        IF ~ok \/ ~FoundGroup(groupId) THEN UNCHANGED tasks
        ELSE IF ~isMember(groups[groupId].members, u) THEN UNCHANGED tasks
        ELSE IF CreatorMayNotLeave(groupId, u) THEN UNCHANGED tasks
        ELSE /\ CanStart
             /\ groups[groupId].v < MaxVersion
             /\ tasks' = Start(Task("rest_leave", "save", NoConn, u, groupId, NoUser,
                                    removeMember(groups[groupId].members, u),
                                    groups[groupId].v))
    /\ out' = <<>>
    /\ UNCHANGED <<userSockets, sockets, groups, messages, storeFails, deleted>>

\* exports.leaveGroup: the save of removeMember is answered; with no member
\* left in the document the handler goes on to Group.findByIdAndDelete
leaveGroupSave(t) ==
    /\ t.kind = "rest_leave" /\ t.pc = "save"
    /\ \E ok \in StoreOutcomes :
        IF ok /\ SaveSetOk(t.g, t.v)
        THEN /\ groups' = SaveSet(t.g, t.members)
             /\ tasks' = IF Len(t.members) = 0
                         THEN Resume(t, [t EXCEPT !.pc = "delete"])
                         ELSE EndTask(t)
        ELSE /\ groups' = groups
             /\ tasks' = EndTask(t)
    /\ out' = <<>>
    /\ UNCHANGED <<userSockets, sockets, messages, storeFails, deleted>>

\* exports.leaveGroup: Group.findByIdAndDelete is answered, then the response
leaveGroupDelete(t) ==
    /\ t.kind = "rest_leave" /\ t.pc = "delete"
    /\ \E ok \in StoreOutcomes :
        groups' = IF ok THEN FindByIdAndDelete(t.g) ELSE groups
    /\ tasks' = EndTask(t)
    /\ out' = <<>>
    /\ UNCHANGED <<userSockets, sockets, messages, storeFails, deleted>>

\* ------------------------------------------- REST message endpoints
\* exports.sendDirectMessage up to await message.save(): User.findById of
\* the recipient is answered, 404 without a user record, 500 on an error
sendDirectMessage(u, recipientId) ==
    /\ \E ok \in StoreOutcomes :
        IF ok /\ recipientId \in UserIds
        THEN /\ CanStart
             /\ MessageEvents < MaxMessages
             /\ tasks' = Start(Task("rest_dm", "save", NoConn, u, NoGroup,
                                    recipientId, <<>>, 0))
        ELSE UNCHANGED tasks
    /\ out' = <<>>
    /\ UNCHANGED <<userSockets, sockets, groups, messages, storeFails, deleted>>

\* exports.sendDirectMessage: message.save() is answered, then the populate
\* calls and the response; no socket event is emitted
sendDirectMessageSave(t) ==
    /\ t.kind = "rest_dm" /\ t.pc = "save"
    /\ \E ok \in StoreOutcomes :
        messages' =
            IF ok /\ preValidate([sender |-> t.user, recipient |-> t.rcpt,
                                  group |-> NoGroup])
            THEN Append(messages,
                        [sender |-> t.user, recipient |-> t.rcpt, group |-> NoGroup])
            ELSE messages
    /\ tasks' = EndTask(t)
    /\ out' = <<>>
    /\ UNCHANGED <<userSockets, sockets, groups, storeFails, deleted>>

\* exports.sendGroupMessage up to await message.save(): Group.findById is
\* answered, 404 without the group, 403 when group.isMember(senderId) is
\* false
sendGroupMessage(u, groupId) ==
    /\ \E ok \in StoreOutcomes :
        IF ok /\ FoundGroup(groupId) /\ isMember(groups[groupId].members, u)
        THEN /\ CanStart
             /\ MessageEvents < MaxMessages
             /\ tasks' = Start(Task("rest_gm", "save", NoConn, u, groupId,
                                    NoUser, <<>>, 0))
        ELSE UNCHANGED tasks
    /\ out' = <<>>
    /\ UNCHANGED <<userSockets, sockets, groups, messages, storeFails, deleted>>

\* exports.sendGroupMessage: message.save() is answered, then the populate
\* calls and the response; no socket event is emitted
sendGroupMessageSave(t) ==
    /\ t.kind = "rest_gm" /\ t.pc = "save"
    /\ \E ok \in StoreOutcomes :
        messages' =
            IF ok /\ preValidate([sender |-> t.user, recipient |-> NoUser,
                                  group |-> t.g])
            THEN Append(messages,
                        [sender |-> t.user, recipient |-> NoUser, group |-> t.g])
            ELSE messages
    /\ tasks' = EndTask(t)
    /\ out' = <<>>
    /\ UNCHANGED <<userSockets, sockets, groups, storeFails, deleted>>

\* -------------------------------------------- the document's methods
\* group.addMember(userId) on the document, short of its save()
DocumentAddMember(g, userId) ==
    /\ groups' = [groups EXCEPT ![g].members = addMember(@, userId)]
    /\ UNCHANGED <<userSockets, sockets, messages, tasks, storeFails, deleted, out>>

\* group.removeMember(userId) on the document, short of its save()
DocumentRemoveMember(g, userId) ==
    /\ groups' = [groups EXCEPT ![g].members = removeMember(@, userId)]
    /\ UNCHANGED <<userSockets, sockets, messages, tasks, storeFails, deleted, out>>

\* ------------------------------------------------------ specifications
\* connections opening and closing, and groups being created
Lifecycle ==
    \/ \E u \in UserIds : Connect(u)
    \/ \E c \in Conns : JoinUserGroupsFind(c)
    \/ \E c \in Conns : JoinUserGroupsJoin(c)
    \/ \E c \in Conns : Disconnect(c)
    \/ \E u \in Creators : createGroup(u)

DirectMessages ==
    \/ \E c \in Conns, r \in RecipientIds, content \in Contents \ {""} :
           DirectMessageRecv(c, r, content)
    \/ \E t \in Running : DirectMessageSave(t)
    \/ \E t \in Running : DirectMessageFanout(t)

GroupMessages ==
    \/ \E c \in Conns, g \in GroupIds, content \in Contents \ {""} :
           GroupMessageRecv(c, g, content)
    \/ \E t \in Running : GroupMessageSave(t)
    \/ \E t \in Running : GroupMessageFanout(t)

SocketMembership ==
    \/ \E c \in Conns, g \in GroupIds : JoinGroupRecv(c, g)
    \/ \E t \in Running : JoinGroupSave(t)
    \/ \E t \in Running : JoinGroupDone(t)
    \/ \E c \in Conns, g \in GroupIds : LeaveGroupRecv(c, g)
    \/ \E t \in Running : LeaveGroupSave(t)
    \/ \E t \in Running : LeaveGroupLeft(t)
    \/ \E t \in Running : LeaveGroupDelete(t)
    \/ \E t \in Running : LeaveGroupDeleted(t)

RestMembership ==
    \/ \E u \in UserIds, g \in GroupIds : joinGroup(u, g)
    \/ \E t \in Running : joinGroupSave(t)
    \/ \E u \in UserIds, g \in GroupIds : leaveGroup(u, g)
    \/ \E t \in Running : leaveGroupSave(t)
    \/ \E t \in Running : leaveGroupDelete(t)

TypingEvents ==
    \/ \E c \in Conns, r \in RecipientIds : Typing(c, r)
    \/ \E c \in Conns, g \in GroupIds : GroupTyping(c, g)

\* events that lack a required field
IncompleteEvents ==
    \/ \E c \in Conns, r \in RecipientIds \cup {NoUser}, content \in Contents :
           (r = NoUser \/ content = "") /\ DirectMessageRecv(c, r, content)
    \/ \E c \in Conns, g \in GroupIds \cup {NoGroup}, content \in Contents :
           (g = NoGroup \/ content = "") /\ GroupMessageRecv(c, g, content)
    \/ \E c \in Conns : JoinGroupRecv(c, NoGroup)
    \/ \E c \in Conns : LeaveGroupRecv(c, NoGroup)
    \/ \E c \in Conns : Typing(c, NoUser)
    \/ \E c \in Conns : GroupTyping(c, NoGroup)

\* connection attempts with any token
Admission == \E token \in Tokens : Handshake(token)

\* presence and direct messages
NextDirect == Lifecycle \/ DirectMessages
SpecDirect == Init /\ [][NextDirect]_vars

\* connection attempts, presence and direct messages
NextAdmission == Admission \/ Lifecycle \/ DirectMessages
SpecAdmission == Init /\ [][NextAdmission]_vars

\* direct and group messages over a store whose calls may fail
NextMessages == Lifecycle \/ DirectMessages \/ GroupMessages
SpecMessageFailures == InitFailures /\ [][NextMessages]_vars

\* typing indicators and events that lack a field
NextEvents == Lifecycle \/ TypingEvents \/ IncompleteEvents
SpecEvents == Init /\ [][NextEvents]_vars

\* message events, complete or not, over a store whose calls may fail
NextErrors == NextMessages \/ IncompleteEvents
SpecErrors == InitFailures /\ [][NextErrors]_vars

\* membership changes from sockets and from the REST endpoints
NextMembership == Lifecycle \/ SocketMembership \/ RestMembership
SpecMembership == Init /\ [][NextMembership]_vars

\* join_group and leave_group over a store whose calls may fail
NextSocketMembership == Lifecycle \/ SocketMembership
SpecMembershipFailures == InitFailures /\ [][NextSocketMembership]_vars

RestMessages ==
    \/ \E u \in UserIds, r \in RecipientIds : sendDirectMessage(u, r)
    \/ \E t \in Running : sendDirectMessageSave(t)
    \/ \E u \in UserIds, g \in GroupIds : sendGroupMessage(u, g)
    \/ \E t \in Running : sendGroupMessageSave(t)

\* messages from sockets and from the REST endpoints
NextRecords == Lifecycle \/ DirectMessages \/ GroupMessages \/ RestMessages
SpecRecords == Init /\ [][NextRecords]_vars

\* connection attempts, messages and typing indicators
NextIdentity == Admission \/ Lifecycle \/ DirectMessages \/ GroupMessages \/ TypingEvents
SpecIdentity == Init /\ [][NextIdentity]_vars

\* the four socket events that are answered with a terminal reply
NextReplies == Lifecycle \/ DirectMessages \/ GroupMessages \/ SocketMembership
SpecReplies == Init /\ [][NextReplies]_vars

\* the methods of one group document, applied in any order
NextDocument ==
    \/ \E g \in GroupIds, u \in DocumentMembers : DocumentAddMember(g, u)
    \/ \E g \in GroupIds, u \in DocumentMembers : DocumentRemoveMember(g, u)
SpecDocument == InitDocument /\ [][NextDocument]_vars

\* direct messages sent in quick succession
DirectMessageBurst ==
    \/ \E c \in Conns, r \in UserIds, content \in Contents \ {""} :
           DirectMessageRecvWithin(c, r, content, MaxBurst)
    \/ \E t \in Running : DirectMessageSave(t)
    \/ \E t \in Running : DirectMessageFanout(t)

\* presence and bursts of direct messages
NextOrder == Lifecycle \/ DirectMessageBurst
SpecOrder == Init /\ [][NextOrder]_vars

\* membership changes and group messages
Next == Lifecycle \/ SocketMembership \/ RestMembership \/ GroupMessages
Spec == Init /\ [][Next]_vars

\* ------------------------------------------------------------- claims
Emitted == {out[i] : i \in DOMAIN out}
HandlersFor(kinds, u, g) ==
    {t \in Running : t.kind \in kinds /\ t.user = u /\ t.g = g}

\* C1: in every reachable state an identity has a registry entry if and
\* only if at least one connection bound to it is open
C1_RegistryIffOpen ==
    \A u \in UserIds : userSocketsHas(u) <=> ConnsOf(u) # {}

\* C2: user_status offline for an identity is emitted only by the closure
\* of its last open connection: after the step that emits it, no connection
\* of that identity is open
C2_OfflineOnlyOnLastClose ==
    \A e \in Emitted :
        e.ev = "user_status" /\ e.typ = "offline" => ConnsOf(e.u) = {}

\* C3: a group_message is delivered only to connections whose identity is
\* in the persisted member list of the group at fan-out
C3_GroupMessageOnlyToMembers ==
    \A e \in Emitted :
        e.ev = "group_message" =>
            \A c \in e.dst : FoundGroup(e.g) /\ sockets[c].user \in MemberSet(e.g)

\* C4: once an identity has been added to a group by a join (no join or
\* leave of it is still running), every open connection of it, its initial
\* subscription done, is subscribed to the group's room
C4_MemberConnectionsSubscribed ==
    \A g \in GroupIds : \A u \in MemberSet(g) \ {groups[g].creator} :
        HandlersFor({"join", "rest_join", "leave", "rest_leave"}, u, g) = {} =>
            \A c \in ConnsOf(u) :
                sockets[c].jug = "done" => GroupRoom(g) \in sockets[c].rooms

\* C5: a group_message that is fanned out reaches every open connection
\* (its initial subscription done) of every identity in the persisted
\* member list at fan-out, the sender's included
C5_GroupMessageToAllMembers ==
    \A e \in Emitted :
        e.ev = "group_message" =>
            \A u \in MemberSet(e.g) : \A c \in ConnsOf(u) :
                sockets[c].jug = "done" => c \in e.dst

\* C6: a group_message event from an identity that is not in the persisted
\* member list of the target group is answered with one error event, to the
\* sender alone; it saves no message and starts no handler that would save
\* or fan out one
C6_NonMemberGroupMessageRejected ==
    [][\A c \in Conns, g \in GroupIds :
        (GroupMessageRecv(c, g, "hi") /\ sockets[c].user \notin MemberSet(g)) =>
            /\ Len(out') = 1
            /\ out'[1].ev = "error" /\ out'[1].from = c /\ out'[1].dst = {c}
            /\ messages' = messages
            /\ tasks' = tasks]_vars

C6_Witness ==
    /\ Len(out) = 1
    /\ out[1].h = "group_message" /\ out[1].ev = "error" /\ out[1].typ = "not_member"
    /\ FoundGroup("g1") /\ sockets[out[1].from].user \notin MemberSet("g1")

\* C7: a leave_group event from the creator of a group that has two or more
\* members is answered with one error event to the sender, and changes no
\* group record and no room subscription, and starts no removal
C7_CreatorLeaveRejected ==
    [][\A c \in Conns, g \in GroupIds :
        (/\ LeaveGroupRecv(c, g)
         /\ FoundGroup(g)
         /\ groups[g].creator = sockets[c].user
         /\ Cardinality(MemberSet(g)) >= 2) =>
            /\ Len(out') = 1
            /\ out'[1].ev = "error" /\ out'[1].from = c /\ out'[1].dst = {c}
            /\ groups' = groups
            /\ sockets' = sockets
            /\ tasks' = tasks]_vars

C7_Witness ==
    /\ Len(out) = 1
    /\ out[1].h = "leave_group" /\ out[1].ev = "error" /\ out[1].typ = "creator"
    /\ Cardinality(MemberSet("g1")) >= 2
    /\ groups["g1"].creator = sockets[out[1].from].user

\* C8: group_deleted is emitted at most once per group and only once the
\* record is gone, and a leave_group that is acknowledged without
\* member_left (the last member left) has deleted the record and is the
\* one emission of group_deleted for the group
C8_GroupDeletedExactlyOnce ==
    \A g \in GroupIds :
        /\ deleted[g] <= 1
        /\ deleted[g] = 1 => ~FoundGroup(g)
        /\ \A e \in Emitted :
              (/\ e.h = "leave_group" /\ e.ev = "group_left" /\ e.g = g
               /\ ~\E m \in Emitted : m.typ = "member_left") =>
                  /\ ~FoundGroup(g)
                  /\ deleted[g] = 1
                  /\ Cardinality({i \in DOMAIN out : out[i].ev = "group_deleted"
                                                     /\ out[i].g = g}) = 1

\* C9: an identity never appears twice in the persisted member list of a
\* group, whatever the order of the join requests for it
C9_NoDuplicateMember ==
    \A g \in GroupIds : \A i, j \in DOMAIN groups[g].members :
        i # j => groups[g].members[i] # groups[g].members[j]

\* C10: the handler of a well-formed direct_message saves one record, and
\* when it reaches its fan-out while the recipient has no open connection,
\* that record is in the store, no further record is saved, no connection
\* receives a direct_message, no error is emitted, and the one message_sent
\* goes to the sender's socket
C10_OfflineRecipient ==
    [][\A t \in Running :
        /\ DirectMessageSave(t) =>
              /\ t.saved = 0
              /\ Len(messages') = Len(messages) + 1
        /\ (DirectMessageFanout(t) /\ ConnsOf(t.rcpt) = {}) =>
              /\ t.saved \in DOMAIN messages
              /\ messages[t.saved] =
                   [sender |-> t.user, recipient |-> t.rcpt, group |-> NoGroup]
              /\ messages' = messages
              /\ \A i \in DOMAIN out' :
                    /\ out'[i].ev # "error"
                    /\ out'[i].ev = "direct_message" => out'[i].dst = {}
              /\ Cardinality({i \in DOMAIN out' : out'[i].ev = "message_sent"}) = 1
              /\ \A i \in DOMAIN out' :
                    out'[i].ev = "message_sent" =>
                        /\ out'[i].from = t.conn
                        /\ out'[i].dst = {t.conn} \cap OpenConns]_vars

C10_Witness ==
    /\ Len(out) = 1
    /\ out[1].h = "direct_message" /\ out[1].ev = "message_sent"
    /\ Len(messages) = 1
    /\ ConnsOf(messages[1].recipient) = {}
    /\ messages[1].recipient # messages[1].sender

\* C11: when the handler of a saved direct message reaches its fan-out
\* while the recipient has an open connection, a direct_message is emitted
\* that every open connection of the recipient receives
C11_OnlineRecipientReceives ==
    [][\A t \in Running :
        (DirectMessageFanout(t) /\ ConnsOf(t.rcpt) # {}) =>
            \E i \in DOMAIN out' :
                /\ out'[i].ev = "direct_message"
                /\ ConnsOf(t.rcpt) \subseteq out'[i].dst]_vars

\* C12: no direct message record is in the store whose recipient is not
\* an existing identity
C12_NoRecordForUnknownRecipient ==
    \A i \in DOMAIN messages :
        messages[i].group = NoGroup => messages[i].recipient \in UserIds

\* C13: a connection attempt whose token is missing, does not verify or
\* names an id without user record is refused in the step that handles it:
\* no registry entry, no emit, no handler; and a refused connection is never
\* in a room, never in the registry, never the origin or a receiver of an
\* emit, and never the connection of a running handler
C13_RejectedNeverAdmitted ==
    /\ [](\A c \in Conns :
            sockets[c].state = "rejected" =>
                /\ sockets[c].rooms = {}
                /\ \A u \in UserIds : userSockets[u] # c
                /\ \A t \in Running : t.conn # c
                /\ \A e \in Emitted : e.from # c /\ c \notin e.dst)
    /\ [][\A token \in Tokens :
            (/\ Handshake(token)
             /\ (token = "" \/ ~Verifies(token) \/ DecodedId(token) \notin UserIds)) =>
                /\ sockets'[NextConn].state = "rejected"
                /\ userSockets' = userSockets
                /\ tasks' = tasks
                /\ out' = <<>>]_vars

C13_Witness ==
    /\ \E c \in Conns : sockets[c].state = "rejected"
    /\ \E d \in Conns : IsOpen(d)
    /\ Len(messages) = 1
    /\ Len(out) > 0

\* C14: a fan-out step emits direct_message or group_message only for a
\* record its handler has already put into the store, and a save step that
\* stores nothing ends its handler with one error, which only the sender's
\* connection can receive
C14_FanoutAfterPersist ==
    [][\A t \in Running :
        /\ (DirectMessageFanout(t) \/ GroupMessageFanout(t)) =>
              \A i \in DOMAIN out' :
                  out'[i].ev \in {"direct_message", "group_message"} =>
                      /\ t.saved \in DOMAIN messages
                      /\ messages[t.saved].sender = t.user
                      /\ messages[t.saved].recipient = t.rcpt
                      /\ messages[t.saved].group = t.g
                      /\ messages' = messages
        /\ ((DirectMessageSave(t) \/ GroupMessageSave(t)) /\ messages' = messages) =>
              /\ tasks' = EndTask(t)
              /\ Len(out') = 1
              /\ out'[1].ev = "error"
              /\ out'[1].from = t.conn
              /\ out'[1].dst \subseteq {t.conn}]_vars

\* the save of a direct message has failed: an error on the sender's
\* socket, no record, no handler left
C14_Witness ==
    /\ storeFails
    /\ Len(out) = 1
    /\ out[1].h = "direct_message" /\ out[1].ev = "error" /\ out[1].typ = "failed"
    /\ out[1].dst = {out[1].from}
    /\ Len(messages) = 0
    /\ tasks = EmptyBag

\* C15: an event of any kind that lacks a required field is answered with
\* one error event on the sender's socket and changes no record, no
\* registry entry and no room subscription
C15_IncompleteEventRejected ==
    [][\A c \in Conns :
        (\/ DirectMessageRecv(c, NoUser, "hi")
         \/ DirectMessageRecv(c, "u2", "")
         \/ GroupMessageRecv(c, NoGroup, "hi")
         \/ GroupMessageRecv(c, "g1", "")
         \/ JoinGroupRecv(c, NoGroup)
         \/ LeaveGroupRecv(c, NoGroup)
         \/ Typing(c, NoUser)
         \/ GroupTyping(c, NoGroup)) =>
            /\ Len(out') = 1
            /\ out'[1].ev = "error" /\ out'[1].from = c /\ out'[1].dst = {c}
            /\ UNCHANGED <<userSockets, sockets, groups, messages, tasks>>]_vars

\* C17: a group_typing emitted for an identity that is not in the persisted
\* member list of the group reaches no connection
C17_NonMemberGroupTypingDropped ==
    \A e \in Emitted :
        (e.ev = "group_typing" /\ e.u \notin MemberSet(e.g)) => e.dst = {}

\* C18: a group_typing reaches only connections that are in the group's room
\* and never the connection that sent it; a typing reaches only open
\* connections of the recipient it names
C18_TypingTargets ==
    [][/\ \A c \in Conns, g \in GroupIds :
            GroupTyping(c, g) =>
                \A i \in DOMAIN out' :
                    out'[i].dst \subseteq InRoom(sockets, GroupRoom(g)) \ {c}
       /\ \A c \in Conns, r \in RecipientIds :
            Typing(c, r) =>
                \A i \in DOMAIN out' : out'[i].dst \subseteq ConnsOf(r)]_vars

\* a group_typing from a connection that is in the room itself reached the
\* other connection in the room
C18_Witness ==
    /\ Len(out) = 1
    /\ out[1].ev = "group_typing"
    /\ out[1].dst # {}
    /\ GroupRoom(out[1].g) \in sockets[out[1].from].rooms
    /\ out[1].from \notin out[1].dst

\* C16: an error event reaches no connection other than the one whose
\* event the handler that emits it is handling
C16_ErrorOnlyToOrigin ==
    \A e \in Emitted : e.ev = "error" => e.dst \subseteq {e.from}

\* an error was emitted while the identity of its origin had a second open
\* connection
C16_Witness ==
    \E e \in Emitted :
        /\ e.ev = "error"
        /\ e.dst = {e.from}
        /\ \E d \in ConnsOf(sockets[e.from].user) : d # e.from

\* C19: when user_status online is emitted for a new connection, that
\* connection is already in the room of every group its identity is a
\* member of
C19_OnlineAfterSubscriptions ==
    \A e \in Emitted :
        (e.ev = "user_status" /\ e.typ = "online") =>
            \A g \in GroupsOf(e.u) : GroupRoom(g) \in sockets[e.from].rooms

\* C20: while no join or leave handler, of a socket or of the REST
\* endpoints, is running, every group record in the store has a member and
\* has its creator among its members
C20_NoOrphanedGroup ==
    (\A t \in Running : t.kind \notin {"join", "leave", "rest_join", "rest_leave"}) =>
        \A g \in GroupIds :
            FoundGroup(g) =>
                /\ Len(groups[g].members) >= 1
                /\ isMember(groups[g].members, groups[g].creator)

\* C21: no membership mutation undoes another identity's join: an identity
\* leaves the persisted member list of a group only in the step in which
\* the save of its own leave takes effect
C21_NoLostMembership ==
    [][\A g \in GroupIds : \A u \in MemberSet(g) :
        (~FoundGroup(g)' \/ ~isMember(groups'[g].members, u)) =>
            \E t \in Running :
                /\ t.user = u /\ t.g = g
                /\ LeaveGroupSave(t) \/ leaveGroupSave(t)]_vars

\* C22: a message event that ends with an error for a failed store call
\* leaves nothing behind: the step in which the handler reports the failure
\* ends in a store that holds no record written by that handler
C22_FailedEventLeavesNothing ==
    [][\A t \in Running :
        (/\ DirectMessageFanout(t) \/ GroupMessageFanout(t)
         /\ \E i \in 1..Len(out') : out'[i].ev = "error")
        => t.saved \notin DOMAIN messages']_vars

\* C23: the direct messages of one connection to one recipient are
\* delivered and acknowledged in the order received: when one of them is
\* fanned out, no direct message received earlier on the same connection
\* for the same recipient is still waiting for its store calls
C23_PerConnectionOrder ==
    [][\A t \in Running :
        DirectMessageFanout(t) =>
            ~\E e \in Running :
                /\ e.kind = "dm" /\ e.conn = t.conn /\ e.rcpt = t.rcpt
                /\ e.seq < t.seq]_vars

\* C24: every persisted message record has exactly one of recipient and
\* group set, whether a socket handler or a REST send endpoint wrote it
C24_RecipientXorGroup ==
    \A i \in DOMAIN messages :
        (messages[i].recipient # NoUser) # (messages[i].group # NoGroup)

\* a group message of a member has been stored
C24_Witness ==
    /\ Len(messages) > 0
    /\ messages[Len(messages)].group # NoGroup
    /\ messages[Len(messages)].sender \in MemberSet(messages[Len(messages)].group)

\* C25: a message whose sender's connection has closed while the handler
\* waited for the store is still persisted, and its fan-out still reaches
\* every open connection it is meant for: the connections of the recipient
\* identity, or those subscribed to the group's room
C25_SenderCloseKeepsFanout ==
    [][\A t \in Running :
        (t.kind \in {"dm", "gm"} /\ ~IsOpen(t.conn)) =>
            /\ (DirectMessageSave(t) \/ GroupMessageSave(t))
                  => Len(messages') = Len(messages) + 1
            /\ DirectMessageFanout(t)
                  => \A d \in ConnsOf(t.rcpt) : \E i \in DOMAIN out' :
                        out'[i].ev = "direct_message" /\ d \in out'[i].dst
            /\ GroupMessageFanout(t)
                  => \A d \in InRoom(sockets, GroupRoom(t.g)) : \E i \in DOMAIN out' :
                        out'[i].ev = "group_message" /\ d \in out'[i].dst]_vars

\* C26: a connection is bound to an identity when it is admitted and to no
\* other afterwards; every handler running for a connection works under
\* that identity, every message, typing or presence event emitted from a
\* connection carries it, and every record a handler stores has it as sender
C26_IdentityBoundOnce ==
    /\ [](/\ \A c \in Conns : sockets[c].state \in {"open", "closed"}
                                  => sockets[c].user \in UserIds
          /\ \A t \in Running : t.conn # NoConn => t.user = sockets[t.conn].user
          /\ \A e \in Emitted :
                e.ev \in {"direct_message", "group_message", "typing",
                          "group_typing", "user_status"}
                    => e.u = sockets[e.from].user)
    /\ [][/\ \A c \in Conns : sockets[c].state \in {"open", "closed"}
                                  => sockets'[c].user = sockets[c].user
          /\ \A t \in Running :
                ((DirectMessageSave(t) \/ GroupMessageSave(t))
                    /\ Len(messages') > Len(messages))
                => messages'[Len(messages')].sender = sockets[t.conn].user]_vars

\* a direct message to another identity has been stored and delivered
C26_Witness ==
    /\ Len(messages) > 0
    /\ \E e \in Emitted :
          /\ e.ev = "direct_message" /\ e.dst # {}
          /\ e.u = sockets[e.from].user
          /\ messages[Len(messages)].sender = e.u
          /\ messages[Len(messages)].recipient # e.u

TerminalReplies(o) ==
    {i \in DOMAIN o : o[i].ev \in {"message_sent", "group_joined", "group_left", "error"}}

\* the handlers of the four socket events that are in flight
SocketHandlers(b) ==
    BagCardinality([t \in {x \in BagToSet(b) : x.kind \in {"dm", "gm", "join", "leave"}}
                       |-> b[t]])

\* C28: every direct_message, group_message, join_group and leave_group
\* event gets exactly one terminal reply on its socket, message_sent,
\* group_joined, group_left or error: the step in which its handler ends
\* emits exactly one, from its socket, a step in which a handler starts or
\* goes on emits none, and an event rejected at once gets exactly one error;
\* a message handler stores at most one record
C28_OneTerminalReply ==
    [][/\ Cardinality(TerminalReplies(out')) <= 1
       /\ \A t \in Running :
            (t.kind \in {"dm", "gm", "join", "leave"} /\ tasks' = EndTask(t))
            => \E i \in TerminalReplies(out') : out'[i].from = t.conn
       /\ (tasks' # tasks /\ SocketHandlers(tasks') >= SocketHandlers(tasks))
            => TerminalReplies(out') = {}
       /\ (tasks' = tasks /\ \E i \in DOMAIN out' :
                out'[i].h \in {"direct_message", "group_message", "join_group", "leave_group"})
            => \E i \in TerminalReplies(out') : out'[i].ev = "error"
       /\ Len(messages') <= Len(messages) + 1
       /\ \A t \in Running :
            (t.kind \in {"dm", "gm"} /\ Len(messages') > Len(messages)
                /\ (DirectMessageSave(t) \/ GroupMessageSave(t)))
            => t.saved = 0 /\ t.pc = "save"]_vars

\* a leave that emptied its group has been answered with group_left after
\* group_deleted
C28_Witness ==
    /\ Len(out) = 2
    /\ out[1].ev = "group_deleted"
    /\ out[2].ev = "group_left"

\* C29: a join that has been acknowledged is observed by the events that
\* follow: the group_message that an identity other than the group's
\* creator sends right after its group_joined, with no leave of its own in
\* flight, finds the group it has joined
C29_AckedJoinObserved ==
    [][\A c \in Conns, g \in GroupIds :
        (/\ GroupMessageRecv(c, g, "hi")
         /\ \E e \in Emitted : /\ e.ev = "group_joined" /\ e.g = g
                                /\ sockets[e.from].user = sockets[c].user
         /\ sockets[c].user \notin Creators
         /\ HandlersFor({"leave", "rest_leave"}, sockets[c].user, g) = {})
        => ~\E i \in DOMAIN out' : out'[i].typ = "not_found"]_vars

\* C30: the receivers of a direct message are taken from the state at the
\* moment of emission: a connection of the recipient identity that has
\* opened since the event was received, and is open when the handler
\* reaches its fan-out, receives the direct_message
C30_ConnectedMeanwhileReceives ==
    [][\A t \in Running :
        DirectMessageFanout(t) =>
            \A d \in ConnsOf(t.rcpt) \ t.seen :
                \E i \in DOMAIN out' :
                    out'[i].ev = "direct_message" /\ d \in out'[i].dst]_vars

\* C31: a handler waiting for the store blocks no other connection: while
\* the direct message of one connection awaits its save, the handler of
\* another connection's direct message can take each of its steps, those
\* steps leave the waiting handler where it is, and its fan-out emits
\* message_sent from its own socket
C31_OtherConnectionsProceed ==
    /\ [](\A t \in Running, e \in Running :
            (t.kind = "dm" /\ t.pc = "save" /\ e.kind = "dm" /\ e.conn # t.conn) =>
                /\ e.pc = "save" => ENABLED DirectMessageSave(e)
                /\ e.pc = "populate" => ENABLED DirectMessageFanout(e))
    /\ [][\A t \in Running, e \in Running :
            (/\ t.kind = "dm" /\ t.pc = "save" /\ e.kind = "dm" /\ e.conn # t.conn
             /\ DirectMessageSave(e) \/ DirectMessageFanout(e)) =>
                /\ t \in BagToSet(tasks')
                /\ DirectMessageFanout(e) =>
                      \E i \in DOMAIN out' :
                          out'[i].ev = "message_sent" /\ out'[i].from = e.conn]_vars

\* the later direct message of one connection has been stored, delivered and
\* acknowledged while the earlier one of another connection awaits its save
C31_Witness ==
    /\ Len(messages) = 1
    /\ \E t \in Running : /\ t.kind = "dm" /\ t.pc = "save" /\ t.seq = 1
                          /\ IsOpen(t.conn)
                          /\ \E e \in Emitted : /\ e.ev = "message_sent"
                                                /\ e.from # t.conn /\ e.dst = {e.from}
    /\ \E e \in Emitted : e.ev = "direct_message" /\ e.dst # {}

\* C32: a connection that has just received group_left for a group is not
\* subscribed to the group's room, and the next step does not subscribe it
\* unless that step completes a join of its identity
C32_UnsubscribedAfterLeft ==
    [][\A c \in Conns, g \in GroupIds :
        (\E e \in Emitted : e.ev = "group_left" /\ e.g = g /\ e.from = c /\ c \in e.dst)
        => /\ GroupRoom(g) \notin sockets[c].rooms
           /\ \/ GroupRoom(g) \notin sockets'[c].rooms
              \/ \E t \in Running : /\ t.user = sockets[c].user /\ t.g = g
                                    /\ JoinGroupDone(t)]_vars

\* C33: a group record is deleted only while its persisted member list is
\* empty
C33_DeletedOnlyWhenEmpty ==
    [][\A g \in GroupIds :
        (FoundGroup(g) /\ ~FoundGroup(g)') => Len(groups[g].members) = 0]_vars

\* C34: the save of a successful leave_group takes exactly the leaver out
\* of the persisted member list and keeps the record, its creator and the
\* other members in their order; when a member is left in the leaver's
\* document the handler emits member_left to the group's room and group_left,
\* no group_deleted, and writes nothing more; the save of a successful
\* join_group appends exactly the sender and changes nothing else
C34_LeaveAndJoinFrame ==
    [][\A t \in Running :
        /\ (LeaveGroupSave(t) /\ groups' # groups) =>
              /\ FoundGroup(t.g)'
              /\ groups'[t.g].members = removeMember(groups[t.g].members, t.user)
              /\ groups'[t.g].creator = groups[t.g].creator
              /\ \A g \in GroupIds \ {t.g} : groups'[g] = groups[g]
        /\ (LeaveGroupLeft(t) /\ Len(t.members) > 0) =>
              /\ groups' = groups /\ deleted' = deleted
              /\ \E i \in DOMAIN out' :
                    /\ out'[i].ev = "group_update" /\ out'[i].typ = "member_left"
                    /\ out'[i].g = t.g /\ out'[i].u = t.user
                    /\ out'[i].dst = InRoom(sockets', GroupRoom(t.g))
              /\ \E i \in DOMAIN out' : out'[i].ev = "group_left"
              /\ \A i \in DOMAIN out' : out'[i].ev # "group_deleted"
        /\ (JoinGroupSave(t) /\ groups' # groups) =>
              /\ groups'[t.g].members = Append(groups[t.g].members, t.user)
              /\ groups'[t.g].creator = groups[t.g].creator
              /\ groups'[t.g].state = groups[t.g].state
              /\ \A g \in GroupIds \ {t.g} : groups'[g] = groups[g]]_vars

\* a member who is not the last one has left: member_left and group_left
\* are emitted and the group is still there with its other member
C34_Witness ==
    /\ \E i \in DOMAIN out : out[i].ev = "group_update" /\ out[i].typ = "member_left"
                             /\ out[i].dst # {}
    /\ \E i \in DOMAIN out :
          /\ out[i].ev = "group_left"
          /\ FoundGroup(out[i].g)
          /\ MemberSet(out[i].g) # {}
          /\ sockets[out[i].from].user \notin MemberSet(out[i].g)

\* C35: the step that completes a join on an open connection leaves that
\* connection subscribed to the group's room and among the receivers of its
\* own member_joined; the step that completes a leave with a member left
\* leaves the connection unsubscribed and not among the receivers of its
\* member_left
C35_SubscribeBeforeNotify ==
    [][\A t \in Running :
        /\ (JoinGroupDone(t) /\ IsOpen(t.conn)) =>
              /\ GroupRoom(t.g) \in sockets'[t.conn].rooms
              /\ \E i \in DOMAIN out' :
                    /\ out'[i].ev = "group_update" /\ out'[i].typ = "member_joined"
                    /\ out'[i].u = t.user /\ t.conn \in out'[i].dst
        /\ (LeaveGroupLeft(t) /\ Len(t.members) > 0) =>
              /\ GroupRoom(t.g) \notin sockets'[t.conn].rooms
              /\ \A i \in DOMAIN out' :
                    out'[i].ev = "group_update" => t.conn \notin out'[i].dst]_vars

\* a connection whose initial subscription has not finished, so that only
\* the join handler can have subscribed it, has received its own member_joined
C35_Witness ==
    \E i \in DOMAIN out :
        /\ out[i].ev = "group_update" /\ out[i].typ = "member_joined"
        /\ out[i].from \in out[i].dst
        /\ sockets[out[i].from].user = out[i].u
        /\ sockets[out[i].from].jug # "done"

\* C36: the step in which a connection closes changes no group record and
\* no message record and ends no handler, and so does the step in which a
\* connection opens; the initial subscription of a new connection finds
\* every group whose persisted member list holds its identity
C36_CloseKeepsStore ==
    [][/\ \A c \in Conns : Disconnect(c) =>
              /\ groups' = groups /\ messages' = messages /\ tasks' = tasks
              /\ deleted' = deleted
       /\ \A u \in UserIds : Connect(u) => groups' = groups /\ messages' = messages
       /\ \A c \in Conns : JoinUserGroupsFind(c) =>
              sockets'[c].found =
                  {g \in GroupIds : FoundGroup(g) /\ sockets[c].user \in MemberSet(g)}]_vars

\* an identity has closed a connection and is subscribed to its group's room
\* again on a new one, with its group record and a message still stored
C36_Witness ==
    \E c \in Conns, d \in Conns, g \in GroupIds :
        /\ sockets[c].state = "closed" /\ IsOpen(d) /\ c < d
        /\ sockets[c].user = sockets[d].user
        /\ sockets[d].user \in MemberSet(g)
        /\ GroupRoom(g) \in sockets[d].rooms
        /\ Len(messages) > 0

\* C37: on every member list of a group document and for every identity U:
\* isMember(U) holds after addMember(U); addMember(U) twice gives the list
\* that addMember(U) once gives; isMember(U) does not hold after
\* removeMember(U); and addMember(U) followed by removeMember(U) gives back
\* a list that did not hold U
C37_DocumentMethods ==
    \A g \in GroupIds : \A u \in DocumentMembers :
        LET m == groups[g].members
        IN /\ isMember(addMember(m, u), u)
           /\ addMember(addMember(m, u), u) = addMember(m, u)
           /\ ~isMember(removeMember(m, u), u)
           /\ ~isMember(m, u) => removeMember(addMember(m, u), u) = m

\* a document that holds one id twice and lacks another, so that addMember
\* has an id to push and removeMember has entries to drop
C37_Witness ==
    \E g \in GroupIds :
        LET m == groups[g].members
        IN /\ Len(m) = 3
           /\ m[1] = m[3] /\ m[1] # m[2]
           /\ \E u \in DocumentMembers : ~isMember(m, u)
           /\ Len(addMember(m, m[1])) = 3
           /\ Len(removeMember(m, m[1])) = 1

====
